---- MODULE Spec2Model ----
(***************************************************************************)
(* Hooks and components of the repository, each modelled as a state        *)
(* machine:                                                                *)
(*   req     useRequest            src/todolist/hooks/useRequest.ts        *)
(*   ax10    useAxios (cacheKey)   src/unnamed/part_010                    *)
(*   ax7     useAxios (retry)      src/unnamed/part_007                    *)
(*   ax0     useAxios (paginated)  src/unnamed/part_000                    *)
(*   ax4     useAxios (refetch)    src/axios4/useAxios.ts                  *)
(*   ax6     useAxios (cache)      src/unnamed/part_006                    *)
(*   inst    axios instance        src/unnamed/part_006                    *)
(*   drawer  FilterDrawer          src/unnamed/part_006                    *)
(*   stepper StepperComponent      src/deepseek.txt                        *)
(*   nav     NavigationComponent   src/unnamed/part_004                    *)
(*   grid    TreeDataGrid          src/unnamed/part_003                    *)
(* They do not interact: each has a specification of its own in which the  *)
(* others stay in their initial state.                                     *)
(***************************************************************************)
EXTENDS Integers, Sequences, FiniteSets, TLC

VARIABLES req, ax10, ax7, ax0, ax4, inst, drawer, stepper, nav, ax6, grid

vars == <<req, ax10, ax7, ax0, ax4, inst, drawer, stepper, nav, ax6, grid>>

\* ------------------------------------------------------------------------
\* Values shared by the hooks
\* ------------------------------------------------------------------------

\* JavaScript null / undefined (a ref that holds no controller is 0).
null == "null"

\* Response bodies the server may return.
Data == {"d1", "d2"}

\* Failures other than a cancellation.
Errors == {"e1"}

\* Request configurations: the hook's own config, or one overridden by the
\* argument of run / execute.
Configs == {"base", "override"}

\* ------------------------------------------------------------------------
\* useRequest  (src/todolist/hooks/useRequest.ts)
\* ------------------------------------------------------------------------

\* Number of run/refresh calls explored for one hook instance.
MaxRuns == 3

RunIds == 1..MaxRuns

\* Values a request may be rejected with: the Error instances, and a value
\* that is not an Error.
Thrown == Errors \cup {"notAnError"}

\* new Error('Request failed')
RequestFailed == "Error: Request failed"

toError_Unwrapped(err) == err

\* err instanceof Error ? err : new Error('Request failed')
toError(err) == IF err \in Errors THEN err ELSE RequestFailed

\* A request that was never issued.  promise is the state of the promise run
\* returned for it, thrown the value its request was rejected with.
NoCall == [status |-> "none", cfg |-> "base", promise |-> "none", thrown |-> null]

\* State after the first render: useState(!manual), useState(initialData),
\* useState(null), useRef().  calls[i] is the request issued by the i-th run:
\* "pending" (in flight), "aborted" (its controller was aborted, the rejection
\* has not been handled yet), "ok" / "failed" / "cancelled" (settled).
\* setAfterUnmount records that a state setter ran after the unmount, started
\* that the effects of the first render have run, lastOp the operation that
\* ran last, onErrorCalls / onErrorLast the calls of options.onError, resetAt
\* the number of runs issued when reset was last called (-1: never).
useRequestInit(manual, initialData) ==
    [ manual |-> manual, initialData |-> initialData,
      loading |-> ~manual, data |-> initialData, error |-> null,
      abortControllerRef |-> 0,
      calls |-> [i \in RunIds |-> NoCall],
      issued |-> 0,
      started |-> FALSE,
      mounted |-> TRUE,
      lastOp |-> "init",
      onErrorCalls |-> 0,
      onErrorLast |-> null,
      setAfterUnmount |-> FALSE,
      resetAt |-> -1 ]

\* abortControllerRef.current.abort(): a request in flight on that controller
\* is rejected with a cancellation; a settled one is not affected.
abortCurrent(h) ==
    IF h.abortControllerRef # 0 /\ h.calls[h.abortControllerRef].status = "pending"
    THEN [h.calls EXCEPT ![h.abortControllerRef].status = "aborted"]
    ELSE h.calls

\* run(runConfig) up to the await: abort the previous controller, create a new
\* one, merge the configuration, setLoading(true), setError(null), send.
runStart(h, cfg) ==
    LET id == h.issued + 1 IN
    [h EXCEPT !.calls = [abortCurrent(h) EXCEPT ![id] =
                            [status |-> "pending", cfg |-> cfg,
                             promise |-> "pending", thrown |-> null]],
              !.abortControllerRef = id,
              !.issued = id,
              !.loading = TRUE,
              !.error = null]

\* finally { setLoading(false) }: runs on every path out of the try block.
runFinally(h) ==
    [h EXCEPT !.loading = FALSE,
              !.setAfterUnmount = h.setAfterUnmount \/ ~h.mounted]

\* try branch after the await: setData(data); onSuccess; return data; finally.
runResolved(h, id, d) ==
    runFinally([h EXCEPT !.calls[id].status = "ok",
                         !.calls[id].promise = "fulfilled",
                         !.data = d,
                         !.lastOp = "resolved"])

runRejected_Swallowed(h, id, err) ==
    runFinally([h EXCEPT !.calls[id].status = "failed",
                         !.calls[id].promise = "fulfilled",
                         !.calls[id].thrown = err,
                         !.error = toError(err),
                         !.onErrorCalls = IF h.onErrorCalls < MaxRuns
                                          THEN h.onErrorCalls + 1 ELSE h.onErrorCalls,
                         !.onErrorLast = toError(err),
                         !.lastOp = "rejected"])

\* catch branch for a failure that is not a cancellation: setError(error);
\* onError(error); throw error; finally.
runRejected(h, id, err) ==
    runFinally([h EXCEPT !.calls[id].status = "failed",
                         !.calls[id].promise = "rejected",
                         !.calls[id].thrown = err,
                         !.error = toError(err),
                         !.onErrorCalls = IF h.onErrorCalls < MaxRuns
                                          THEN h.onErrorCalls + 1 ELSE h.onErrorCalls,
                         !.onErrorLast = toError(err),
                         !.lastOp = "rejected"])

runCancelled_AsFailure(h, id) ==
    runFinally([h EXCEPT !.calls[id].status = "cancelled",
                         !.calls[id].promise = "rejected",
                         !.error = RequestFailed,
                         !.onErrorCalls = IF h.onErrorCalls < MaxRuns
                                          THEN h.onErrorCalls + 1 ELSE h.onErrorCalls,
                         !.onErrorLast = RequestFailed,
                         !.lastOp = "cancelled"])

\* catch branch for axios.isCancel(err): return Promise.reject(err); finally.
runCancelled(h, id) ==
    runFinally([h EXCEPT !.calls[id].status = "cancelled",
                         !.calls[id].promise = "rejected",
                         !.lastOp = "cancelled"])

otherThanReq == <<ax10, ax7, ax0, ax4, inst, drawer, stepper, nav, ax6, grid>>

\* The effects run after the first render: the only effect of the hook
\* registers the cleanup and does nothing else.
Mount ==
    /\ ~req.started
    /\ req' = [req EXCEPT !.started = TRUE, !.lastOp = "mount"]
    /\ UNCHANGED otherThanReq

Run(cfg) ==
    /\ req.started /\ req.mounted
    /\ req.issued < MaxRuns
    /\ req' = [runStart(req, cfg) EXCEPT !.lastOp = "run"]
    /\ UNCHANGED otherThanReq

\* refresh() is run() without a runConfig.
Refresh ==
    /\ req.started /\ req.mounted
    /\ req.issued < MaxRuns
    /\ req' = [runStart(req, "base") EXCEPT !.lastOp = "refresh"]
    /\ UNCHANGED otherThanReq

\* reset(): setData(initialData); setError(null); setLoading(false).
reset(h) ==
    [h EXCEPT !.data = h.initialData, !.error = null, !.loading = FALSE,
              !.lastOp = "reset", !.resetAt = h.issued]

Reset ==
    /\ req.started /\ req.mounted
    /\ req' = reset(req)
    /\ UNCHANGED otherThanReq

RequestResolves(id, d) ==
    /\ req.calls[id].status = "pending"
    /\ req' = runResolved(req, id, d)
    /\ UNCHANGED otherThanReq

RequestRejects(id, err) ==
    /\ req.calls[id].status = "pending"
    /\ req' = runRejected(req, id, err)
    /\ UNCHANGED otherThanReq

RequestCancelled(id) ==
    /\ req.calls[id].status = "aborted"
    /\ req' = runCancelled(req, id)
    /\ UNCHANGED otherThanReq

\* Cleanup of the effect with no dependencies: abort the current controller.
Unmount ==
    /\ req.started /\ req.mounted
    /\ req' = [req EXCEPT !.mounted = FALSE, !.calls = abortCurrent(req),
                          !.lastOp = "unmount"]
    /\ UNCHANGED otherThanReq

\* ------------------------------------------------------------------------
\* useAxios with cacheKey / cacheDuration  (src/unnamed/part_010)
\* ------------------------------------------------------------------------

\* Number of execute calls explored for one hook instance.
MaxExec == 3

ExecIds == 1..MaxExec

\* Last value of the clock Date.now() reads.
MaxTime == 3

\* cacheDuration, in ticks of the model's clock (the default is 30000 ms).
cacheDuration == 2

\* Keys of the module-level cacheStore; the hook uses the one it was given.
CacheKeys == {"k"}

NoExec == [status |-> "none", cfg |-> "base", resp |-> null, from |-> 0,
           expired |-> FALSE]

\* cacheStore[key] of a key that was never stored (undefined).
NoEntry == [present |-> FALSE, data |-> null, timestamp |-> 0, by |-> 0]

\* State after the first render, with an empty cacheStore.  calls[i] is the
\* i-th execute: "cached" (answered from cacheStore), "pending", "aborted",
\* "ok", "failed", "cancelled".  resp is the data the call delivered, from the
\* call that stored the cache entry a cached call was answered from (by in
\* the entry), expired that the call found an entry older than cacheDuration.
useAxios10Init(cacheKey) ==
    [ cacheKey |-> cacheKey,
      data |-> null, loading |-> FALSE, error |-> null,
      abortControllerRef |-> 0,
      calls |-> [i \in ExecIds |-> NoExec],
      issued |-> 0,
      cacheStore |-> [k \in CacheKeys |-> NoEntry],
      now |-> 0,
      mounted |-> TRUE ]

isCacheValid_Reversed(h, key) ==
    IF ~h.cacheStore[key].present THEN FALSE
    ELSE h.now - h.cacheStore[key].timestamp > cacheDuration

isCacheValid_NeverExpires(h, key) == h.cacheStore[key].present

\* isCacheValid(key): an entry exists and Date.now() - timestamp < cacheDuration.
isCacheValid(h, key) ==
    IF ~h.cacheStore[key].present THEN FALSE
    ELSE h.now - h.cacheStore[key].timestamp < cacheDuration

\* cancel(): abortControllerRef.current.abort(...) when a controller exists.
cancel10(h) ==
    IF h.abortControllerRef # 0 /\ h.calls[h.abortControllerRef].status = "pending"
    THEN [h.calls EXCEPT ![h.abortControllerRef].status = "aborted"]
    ELSE h.calls

\* execute(executionConfig) up to its first await or return.  With a valid
\* cache entry: setData(cached), return, finally setLoading(false).  Otherwise
\* a new AbortController replaces the ref (the previous one is not aborted),
\* the configurations are merged and the request is sent.
execute10(h, cfg) ==
    LET id == h.issued + 1 IN
    IF h.cacheKey # null /\ isCacheValid(h, h.cacheKey)
    THEN [h EXCEPT !.error = null,
                   !.data = h.cacheStore[h.cacheKey].data,
                   !.loading = FALSE,
                   !.issued = id,
                   !.calls[id] = [status |-> "cached", cfg |-> cfg,
                                  resp |-> h.cacheStore[h.cacheKey].data,
                                  from |-> h.cacheStore[h.cacheKey].by,
                                  expired |-> FALSE]]
    ELSE [h EXCEPT !.loading = TRUE,
                   !.error = null,
                   !.abortControllerRef = id,
                   !.issued = id,
                   !.calls[id] = [status |-> "pending", cfg |-> cfg,
                                  resp |-> null, from |-> 0,
                                  expired |-> h.cacheKey # null
                                              /\ h.cacheStore[h.cacheKey].present]]

\* After the await: setData(response.data); onSuccess; store the cache entry
\* when a cacheKey is given; finally setLoading(false).
executeResolved10(h, id, d) ==
    [h EXCEPT !.data = d,
              !.calls[id].status = "ok",
              !.calls[id].resp = d,
              !.cacheStore = IF h.cacheKey # null
                             THEN [h.cacheStore EXCEPT ![h.cacheKey] =
                                     [present |-> TRUE, data |-> d,
                                      timestamp |-> h.now, by |-> id]]
                             ELSE h.cacheStore,
              !.loading = FALSE]

\* catch of a failure that is not a cancellation: setError; onError; finally.
executeRejected10(h, id, e) ==
    [h EXCEPT !.error = e, !.calls[id].status = "failed", !.loading = FALSE]

\* catch of a cancellation: nothing but finally setLoading(false).
executeCancelled10(h, id) ==
    [h EXCEPT !.calls[id].status = "cancelled", !.loading = FALSE]

otherThanAx10 == <<req, ax7, ax0, ax4, inst, drawer, stepper, nav, ax6, grid>>

\* execute() from the caller, or from the effect when immediate is set.
Execute10(cfg) ==
    /\ ax10.mounted
    /\ ax10.issued < MaxExec
    /\ ax10' = execute10(ax10, cfg)
    /\ UNCHANGED otherThanAx10

Resolves10(id, d) ==
    /\ ax10.calls[id].status = "pending"
    /\ ax10' = executeResolved10(ax10, id, d)
    /\ UNCHANGED otherThanAx10

Rejects10(id, e) ==
    /\ ax10.calls[id].status = "pending"
    /\ ax10' = executeRejected10(ax10, id, e)
    /\ UNCHANGED otherThanAx10

Cancelled10(id) ==
    /\ ax10.calls[id].status = "aborted"
    /\ ax10' = executeCancelled10(ax10, id)
    /\ UNCHANGED otherThanAx10

Cancel10 ==
    /\ ax10.mounted
    /\ ax10.abortControllerRef # 0
    /\ ax10' = [ax10 EXCEPT !.calls = cancel10(ax10)]
    /\ UNCHANGED otherThanAx10

\* Cleanup of the effect that returns () => cancel().
Unmount10 ==
    /\ ax10.mounted
    /\ ax10' = [ax10 EXCEPT !.mounted = FALSE, !.calls = cancel10(ax10)]
    /\ UNCHANGED otherThanAx10

\* Time passes: Date.now() grows.
Tick10 ==
    /\ ax10.now < MaxTime
    /\ ax10' = [ax10 EXCEPT !.now = ax10.now + 1]
    /\ UNCHANGED otherThanAx10

\* ------------------------------------------------------------------------
\* useAxios with retry / retryDelay  (src/unnamed/part_007; the fetchData of
\* src/unnamed/part_008 differs only in the expiry of its cache entries)
\* ------------------------------------------------------------------------

\* Largest value of the retry option explored.
MaxRetry == 2

\* Number of requests explored for one hook instance.
MaxAttempts == 4

AttemptIds == 1..MaxAttempts

NoAttempt == [status |-> "none", resp |-> null]

\* State after the first render: response null, error null, loading true, an
\* empty cache, retryCountRef 0 and one CancelToken source that lives as long
\* as the hook (tokenCancelled: cancel was called on it).  timers counts the
\* pending setTimeout(fetchData, retryDelay); started: the effect has run;
\* retryCall is the last request sent by such a timer (0: none).
useAxios7Init(retry, cache) ==
    [ retry |-> retry, cache |-> cache,
      response |-> null, error |-> null, loading |-> TRUE,
      cacheRef |-> null,
      retryCountRef |-> 0,
      tokenCancelled |-> FALSE,
      calls |-> [i \in AttemptIds |-> NoAttempt],
      issued |-> 0,
      timers |-> 0,
      started |-> FALSE,
      mounted |-> TRUE,
      retryCall |-> 0 ]

\* finally { if (retryCountRef.current >= retry) setLoading(false) }
fetchFinally7(h) ==
    IF h.retryCountRef >= h.retry THEN [h EXCEPT !.loading = FALSE] ELSE h

\* fetchData() up to its await or return: answer from the cache, or send the
\* request bound to the hook's cancel token (a token that is already
\* cancelled rejects the request at once).
fetchData7(h) ==
    LET id == h.issued + 1 IN
    IF h.cache /\ h.cacheRef # null
    THEN fetchFinally7([h EXCEPT !.response = h.cacheRef, !.loading = FALSE])
    ELSE [h EXCEPT !.issued = id,
                   !.calls[id].status = IF h.tokenCancelled THEN "aborted" ELSE "pending"]

\* fetchData() sends a request unless the cache answers.
sends7(h) == ~(h.cache /\ h.cacheRef # null)

\* After the await: setResponse(result.data); store in the cache; finally.
fetchResolved7(h, id, d) ==
    fetchFinally7([h EXCEPT !.calls[id] = [status |-> "ok", resp |-> d],
                            !.response = d,
                            !.cacheRef = IF h.cache THEN d ELSE h.cacheRef])

\* catch of a failure that is not a cancellation: setError(message); then
\* count and schedule a retry, or setLoading(false); finally.
fetchRejected7(h, id, e) ==
    LET f == [h EXCEPT !.calls[id].status = "failed", !.error = e] IN
    fetchFinally7(IF h.retryCountRef < h.retry
                  THEN [f EXCEPT !.retryCountRef = h.retryCountRef + 1,
                                 !.timers = h.timers + 1]
                  ELSE [f EXCEPT !.loading = FALSE])

\* catch of a cancellation: console.log; finally.
fetchCancelled7(h, id) ==
    fetchFinally7([h EXCEPT !.calls[id].status = "cancelled"])

\* cancelTokenSourceRef.current.cancel(...): every request in flight is bound
\* to this one token.
cancelToken7(h) ==
    [h EXCEPT !.tokenCancelled = TRUE,
              !.calls = [i \in AttemptIds |->
                           IF h.calls[i].status = "pending"
                           THEN [h.calls[i] EXCEPT !.status = "aborted"]
                           ELSE h.calls[i]]]

otherThanAx7 == <<req, ax10, ax0, ax4, inst, drawer, stepper, nav, ax6, grid>>

\* The effect runs after the first render: fetchData().
Mount7 ==
    /\ ~ax7.started
    /\ ax7' = fetchData7([ax7 EXCEPT !.started = TRUE])
    /\ UNCHANGED otherThanAx7

\* A dependency of fetchData (url, method, params, ...) changes: the cleanup
\* of the previous effect cancels the token, the new effect calls fetchData().
DepsChange7 ==
    /\ ax7.started /\ ax7.mounted
    /\ sends7(ax7) => ax7.issued < MaxAttempts
    /\ ax7' = fetchData7(cancelToken7(ax7))
    /\ UNCHANGED otherThanAx7

Resolves7(id, d) ==
    /\ ax7.calls[id].status = "pending"
    /\ ax7' = fetchResolved7(ax7, id, d)
    /\ UNCHANGED otherThanAx7

Rejects7(id, e) ==
    /\ ax7.calls[id].status = "pending"
    /\ ax7' = fetchRejected7(ax7, id, e)
    /\ UNCHANGED otherThanAx7

Cancelled7(id) ==
    /\ ax7.calls[id].status = "aborted"
    /\ ax7' = fetchCancelled7(ax7, id)
    /\ UNCHANGED otherThanAx7

\* A scheduled retry fires: fetchData().
TimerFires7 ==
    /\ ax7.timers > 0
    /\ sends7(ax7) => ax7.issued < MaxAttempts
    /\ ax7' = fetchData7([ax7 EXCEPT !.timers = ax7.timers - 1,
                                     !.retryCall = IF sends7(ax7) THEN ax7.issued + 1
                                                   ELSE ax7.retryCall])
    /\ UNCHANGED otherThanAx7

\* cancel() from the caller.
Cancel7 ==
    /\ ax7.started /\ ax7.mounted
    /\ ~ax7.tokenCancelled
    /\ ax7' = cancelToken7(ax7)
    /\ UNCHANGED otherThanAx7

\* Cleanup of the effect on unmount.
Unmount7 ==
    /\ ax7.started /\ ax7.mounted
    /\ ax7' = [cancelToken7(ax7) EXCEPT !.mounted = FALSE]
    /\ UNCHANGED otherThanAx7

\* ------------------------------------------------------------------------
\* useAxios with retry, cache and pagination  (src/unnamed/part_000)
\* ------------------------------------------------------------------------

\* Number of requests explored for one hook instance.
MaxFetch == 4

FetchIds == 1..MaxFetch

\* Response bodies of the paginated endpoint: an empty page, a page of one.
Pages == {<<>>, <<"a">>}

\* state.data === null (the data of this hook is a list).
nullList == <<null>>

NoFetch == [status |-> "none", isLoadMore |-> FALSE, logical |-> 0]

\* State after the first render.  calls[i] is the i-th request sent; logical
\* is the call of refetch, loadMore or the effect it belongs to (a retry
\* belongs to the call it retries); logicalCalls counts those calls.
useAxios0Init(manual, cache, retry) ==
    [ manual |-> manual, cache |-> cache, retry |-> retry,
      data |-> nullList, loading |-> ~manual, error |-> null,
      pagination |-> [page |-> 1, pageSize |-> 10, hasMore |-> TRUE,
                      total |-> 0, items |-> <<>>],
      cacheData |-> nullList,
      cancelTokenSource |-> 0,
      retryCount |-> 0,
      calls |-> [i \in FetchIds |-> NoFetch],
      issued |-> 0,
      logicalCalls |-> 0,
      started |-> FALSE,
      mounted |-> TRUE ]

\* cancelTokenSource.current.cancel(...) when a source exists.
cancelSource0(h) ==
    IF h.cancelTokenSource # 0 /\ h.calls[h.cancelTokenSource].status = "pending"
    THEN [h.calls EXCEPT ![h.cancelTokenSource].status = "aborted"]
    ELSE h.calls

\* fetchData(isLoadMore) answers from the cache without sending.
cacheHit0(h, isLoadMore) == h.cache /\ h.cacheData # nullList /\ ~isLoadMore

\* fetchData(isLoadMore) up to its await or return, as part of logical call l.
fetchData0(h, isLoadMore, l) ==
    LET id == h.issued + 1 IN
    IF cacheHit0(h, isLoadMore)
    THEN [h EXCEPT !.data = h.cacheData, !.loading = FALSE, !.error = null]
    ELSE [h EXCEPT !.calls = [cancelSource0(h) EXCEPT ![id] =
                                [status |-> "pending", isLoadMore |-> isLoadMore,
                                 logical |-> l]],
                   !.cancelTokenSource = id,
                   !.issued = id,
                   !.loading = TRUE,
                   !.error = null]

\* After the await: cache the data, update the pagination, store the state.
fetchResolved0(h, id, d) ==
    LET more == h.calls[id].isLoadMore
        prev == h.pagination IN
    [h EXCEPT !.calls[id].status = "ok",
              !.cacheData = IF h.cache /\ ~more THEN d ELSE h.cacheData,
              !.pagination = IF more
                             THEN [prev EXCEPT !.items = prev.items \o d,
                                               !.page = prev.page + 1,
                                               !.hasMore = Len(d) > 0]
                             ELSE [prev EXCEPT !.items = d,
                                               !.page = 1,
                                               !.hasMore = TRUE],
              !.data = d, !.loading = FALSE, !.error = null]

\* catch of a failure that is not a cancellation: while retryCount < retry
\* count and call fetchData(isLoadMore) again; otherwise store the error.
fetchRejected0(h, id, e) ==
    LET f == [h EXCEPT !.calls[id].status = "failed"] IN
    IF h.retryCount < h.retry
    THEN fetchData0([f EXCEPT !.retryCount = h.retryCount + 1],
                    h.calls[id].isLoadMore, h.calls[id].logical)
    ELSE [f EXCEPT !.data = nullList, !.loading = FALSE, !.error = e]

otherThanAx0 == <<req, ax10, ax7, ax4, inst, drawer, stepper, nav, ax6, grid>>

\* The effect runs after the first render: fetchData() unless manual.
Mount0 ==
    /\ ~ax0.started
    /\ ax0' = IF ax0.manual
              THEN [ax0 EXCEPT !.started = TRUE]
              ELSE fetchData0([ax0 EXCEPT !.started = TRUE, !.logicalCalls = 1], FALSE, 1)
    /\ UNCHANGED otherThanAx0

\* refetch()
Refetch0 ==
    /\ ax0.started /\ ax0.mounted
    /\ ~cacheHit0(ax0, FALSE) => ax0.issued < MaxFetch
    /\ ax0.logicalCalls < MaxFetch
    /\ ax0' = fetchData0([ax0 EXCEPT !.logicalCalls = ax0.logicalCalls + 1],
                         FALSE, ax0.logicalCalls + 1)
    /\ UNCHANGED otherThanAx0

\* loadMore(): fetchData(true) while pagination.hasMore.
LoadMore0 ==
    /\ ax0.started /\ ax0.mounted
    /\ ax0.pagination.hasMore
    /\ ax0.issued < MaxFetch
    /\ ax0.logicalCalls < MaxFetch
    /\ ax0' = fetchData0([ax0 EXCEPT !.logicalCalls = ax0.logicalCalls + 1],
                         TRUE, ax0.logicalCalls + 1)
    /\ UNCHANGED otherThanAx0

Resolves0(id, d) ==
    /\ ax0.calls[id].status = "pending"
    /\ ax0' = fetchResolved0(ax0, id, d)
    /\ UNCHANGED otherThanAx0

Rejects0(id, e) ==
    /\ ax0.calls[id].status = "pending"
    /\ (ax0.retryCount < ax0.retry /\ ~cacheHit0(ax0, ax0.calls[id].isLoadMore))
          => ax0.issued < MaxFetch
    /\ ax0' = fetchRejected0(ax0, id, e)
    /\ UNCHANGED otherThanAx0

\* catch of a cancellation: console.log only.
Cancelled0(id) ==
    /\ ax0.calls[id].status = "aborted"
    /\ ax0' = [ax0 EXCEPT !.calls[id].status = "cancelled"]
    /\ UNCHANGED otherThanAx0

\* Cleanup of the effect on unmount.
Unmount0 ==
    /\ ax0.started /\ ax0.mounted
    /\ ax0' = [ax0 EXCEPT !.mounted = FALSE, !.calls = cancelSource0(ax0)]
    /\ UNCHANGED otherThanAx0

\* ------------------------------------------------------------------------
\* useAxios with refetch / cancel  (src/axios4/useAxios.ts)
\* ------------------------------------------------------------------------

\* Number of requests explored for one hook instance.
MaxRefetch == 3

RefetchIds == 1..MaxRefetch

\* Number of renders explored for one hook instance.
MaxRender == 6

NoRefetch == [status |-> "none"]

\* State after the first render.  Every render creates a controller of its
\* own (controller r belongs to render r).  fetchData is memoised with no
\* dependencies, so it keeps the controller of the first render; cancel is
\* memoised on the controller, so it is the one of the latest render.
\* effectRender is the render whose cancel the effect's cleanup holds.
useAxios4Init(immediate) ==
    [ immediate |-> immediate,
      data |-> null, loading |-> immediate, error |-> null,
      render |-> 1,
      aborted |-> {},
      effectRender |-> 0,
      calls |-> [i \in RefetchIds |-> NoRefetch],
      issued |-> 0,
      started |-> FALSE,
      mounted |-> TRUE ]

\* The controller the closure of fetchData refers to.
fetchController4 == 1

\* controller.abort() of the controller of render r.
abort4(h, r) ==
    [h EXCEPT !.aborted = h.aborted \cup {r},
              !.calls = IF r = fetchController4
                        THEN [i \in RefetchIds |->
                                IF h.calls[i].status = "pending"
                                THEN [status |-> "aborted"] ELSE h.calls[i]]
                        ELSE h.calls]

\* fetchData(currentConfig) up to the await: loading true, then the request
\* with the signal of fetchData's controller (an aborted signal rejects it
\* at once).  The state update causes a render.
fetchData4(h) ==
    LET id == h.issued + 1 IN
    [h EXCEPT !.loading = TRUE,
              !.render = h.render + 1,
              !.issued = id,
              !.calls[id].status = IF fetchController4 \in h.aborted
                                   THEN "aborted" ELSE "pending"]

\* After the await: setState({data, loading: false, error: null}).
fetchResolved4(h, id, d) ==
    [h EXCEPT !.calls[id].status = "ok",
              !.data = d, !.loading = FALSE, !.error = null,
              !.render = h.render + 1]

fetchRejected4_KeepData(h, id, e) ==
    [h EXCEPT !.calls[id].status = "failed",
              !.loading = FALSE, !.error = e,
              !.render = h.render + 1]

\* catch of an error that is not a CanceledError:
\* setState({data: null, loading: false, error}).
fetchRejected4(h, id, e) ==
    [h EXCEPT !.calls[id].status = "failed",
              !.data = null, !.loading = FALSE, !.error = e,
              !.render = h.render + 1]

otherThanAx4 == <<req, ax10, ax7, ax0, inst, drawer, stepper, nav, ax6, grid>>

\* The effect runs after the first render: fetchData(config) when immediate;
\* its cleanup holds the cancel of this render.
Mount4 ==
    /\ ~ax4.started
    /\ ax4' = LET h == [ax4 EXCEPT !.started = TRUE, !.effectRender = ax4.render]
              IN IF ax4.immediate THEN fetchData4(h) ELSE h
    /\ UNCHANGED otherThanAx4

\* refetch(newConfig)
Refetch4 ==
    /\ ax4.started /\ ax4.mounted
    /\ ax4.issued < MaxRefetch
    /\ ax4.render < MaxRender
    /\ ax4' = fetchData4(ax4)
    /\ UNCHANGED otherThanAx4

Resolves4(id, d) ==
    /\ ax4.calls[id].status = "pending"
    /\ ax4.render < MaxRender
    /\ ax4' = fetchResolved4(ax4, id, d)
    /\ UNCHANGED otherThanAx4

Rejects4(id, e) ==
    /\ ax4.calls[id].status = "pending"
    /\ ax4.render < MaxRender
    /\ ax4' = fetchRejected4(ax4, id, e)
    /\ UNCHANGED otherThanAx4

\* catch of a CanceledError: no state update.
Cancelled4(id) ==
    /\ ax4.calls[id].status = "aborted"
    /\ ax4' = [ax4 EXCEPT !.calls[id].status = "cancelled"]
    /\ UNCHANGED otherThanAx4

\* cancel() of the latest render.
Cancel4 ==
    /\ ax4.started /\ ax4.mounted
    /\ ax4.render \notin ax4.aborted
    /\ ax4' = abort4(ax4, ax4.render)
    /\ UNCHANGED otherThanAx4

\* config.url changes: a render with the new props, the cleanup of the
\* previous effect (its cancel), then the effect again.
UrlChange4 ==
    /\ ax4.started /\ ax4.mounted
    /\ ax4.render + 1 < MaxRender
    /\ ax4.immediate => ax4.issued < MaxRefetch
    /\ ax4' = LET r == ax4.render + 1
                  h == [abort4(ax4, ax4.effectRender) EXCEPT !.render = r,
                                                             !.effectRender = r]
              IN IF ax4.immediate THEN fetchData4(h) ELSE h
    /\ UNCHANGED otherThanAx4

\* Cleanup of the effect on unmount.
Unmount4 ==
    /\ ax4.started /\ ax4.mounted
    /\ ax4' = [abort4(ax4, ax4.effectRender) EXCEPT !.mounted = FALSE]
    /\ UNCHANGED otherThanAx4

\* ------------------------------------------------------------------------
\* The axios instance with pendingMap  (end of src/unnamed/part_006)
\* ------------------------------------------------------------------------

\* Number of requests sent through the instance.
MaxSend == 3

SendIds == 1..MaxSend

\* Last value of the clock new Date().getTime() reads.
MaxInstTime == 2

\* What the caller asks for (method, url, params, data): a request without a
\* body and one with an object as its body.
InstConfigs == {"get", "post"}

\* JSON.stringify(config.data): undefined for a request without a body; the
\* JSON text of the caller's object in the request interceptor; in the
\* response interceptor config.data is the serialised body, a string, and
\* JSON.stringify quotes it.
stringifyData(cfg, serialised) ==
    IF cfg = "get" THEN "undefined"
    ELSE IF serialised THEN "quoted JSON text" ELSE "JSON text"

\* generateRequestKey(config): method, url, params (with the _t the request
\* interceptor added) and data, joined.
generateRequestKey(cfg, t, serialised) == <<cfg, t, stringifyData(cfg, serialised)>>

RequestKeys ==
    InstConfigs \X (0..MaxInstTime) \X {"undefined", "JSON text", "quoted JSON text"}

\* A request: callerSignal that the caller put a signal of its own in the
\* config, signal whose signal the config holds when the request is sent,
\* callerAborted that the caller has aborted its controller.
NoRequest == [status |-> "none", cfg |-> "get", t |-> 0,
              callerSignal |-> FALSE, signal |-> "none", callerAborted |-> FALSE]

\* State of the module once loaded: an empty pendingMap (0: no entry).  A
\* controller and the request it belongs to share their number.
instanceInit ==
    [ pendingMap |-> [k \in RequestKeys |-> 0],
      reqs |-> [i \in SendIds |-> NoRequest],
      sent |-> 0,
      now |-> 0 ]

\* controller.abort(): the request in flight with this controller's signal
\* is rejected with a cancellation.
abortController(reqs, c) ==
    IF c # 0 /\ reqs[c].status = "pending"
    THEN [reqs EXCEPT ![c].status = "aborted"]
    ELSE reqs

\* removePendingRequest(config): abort and delete the entry of the key, then
\* register a new controller whose signal replaces config.signal (recorded
\* by requestInterceptor in the request's signal).
removePendingRequest(s, cfg, t, id) ==
    LET requestKey == generateRequestKey(cfg, t, FALSE) IN
    [s EXCEPT !.reqs = abortController(s.reqs, s.pendingMap[requestKey]),
              !.pendingMap[requestKey] = id]

\* The request interceptor: _t: timestamp is added to params, then
\* removePendingRequest(config); the request is sent.
requestInterceptor(s, cfg, callerSignal) ==
    LET id == s.sent + 1
        r == removePendingRequest(s, cfg, s.now, id) IN
    [r EXCEPT !.reqs[id] = [status |-> "pending", cfg |-> cfg, t |-> s.now,
                            callerSignal |-> callerSignal,
                            signal |-> "instance",
                            callerAborted |-> FALSE],
              !.sent = id]

\* Both response interceptors: pendingMap.delete(generateRequestKey(config))
\* with the config of the settled request.
responseInterceptor(s, id, outcome) ==
    [s EXCEPT !.pendingMap[generateRequestKey(s.reqs[id].cfg, s.reqs[id].t, TRUE)] = 0,
              !.reqs[id].status = outcome]

otherThanInst == <<req, ax10, ax7, ax0, ax4, drawer, stepper, nav, ax6, grid>>

\* instance.request(config), with or without a signal of the caller's.
Send(cfg, callerSignal) ==
    /\ inst.sent < MaxSend
    /\ inst' = requestInterceptor(inst, cfg, callerSignal)
    /\ UNCHANGED otherThanInst

\* The caller aborts the controller whose signal it put in the config: the
\* request is cancelled if that is the signal the config holds.
CallerAborts(id) ==
    /\ inst.reqs[id].status = "pending"
    /\ inst.reqs[id].callerSignal
    /\ ~inst.reqs[id].callerAborted
    /\ inst' = [inst EXCEPT !.reqs[id].callerAborted = TRUE,
                            !.reqs[id].status =
                                IF inst.reqs[id].signal = "caller"
                                THEN "aborted" ELSE "pending"]
    /\ UNCHANGED otherThanInst

InstResponds(id) ==
    /\ inst.reqs[id].status = "pending"
    /\ inst' = responseInterceptor(inst, id, "ok")
    /\ UNCHANGED otherThanInst

InstFails(id) ==
    /\ inst.reqs[id].status = "pending"
    /\ inst' = responseInterceptor(inst, id, "failed")
    /\ UNCHANGED otherThanInst

\* The rejection of an aborted request carries its config too.
InstCancelled(id) ==
    /\ inst.reqs[id].status = "aborted"
    /\ inst' = responseInterceptor(inst, id, "cancelled")
    /\ UNCHANGED otherThanInst

\* Time passes: new Date().getTime() grows.
InstTick ==
    /\ inst.now < MaxInstTime
    /\ inst' = [inst EXCEPT !.now = inst.now + 1]
    /\ UNCHANGED otherThanInst

\* ------------------------------------------------------------------------
\* FilterDrawer  (src/unnamed/part_006, "Update filter")
\* ------------------------------------------------------------------------

\* The filters of the usage example: two list filters and a date filter.
ListFields == {"tags", "category"}

DateFields == {"publishDate"}

\* options.length of the list filters.
optionCount == [f \in ListFields |-> IF f = "tags" THEN 15 ELSE 20]

\* Options beyond this number are behind the button.
MoreThreshold == 10

\* Options of a list the user selects among: the first MaxItem of it.
MaxItem == 2

\* Values the date picker reports: a date, or null (<<>>).
Dates == {<<"2024-01-01">>, <<>>}

\* A key the object does not have.
NoValue == [has |-> FALSE, val |-> <<>>]

\* State after the first render: closed, three empty objects.  An entry of
\* expandedSelects is "absent", "false" or "true".  moreOn[f] records that
\* the last press of the button of f was on its label 更多 (not 收起);
\* applied that onApply was called; closedDirty that the last closing of the
\* drawer found one of the three objects not empty.
filterDrawerInit ==
    [ open |-> FALSE,
      filterValues |-> [f \in ListFields \cup DateFields |-> NoValue],
      expandedSelects |-> [f \in ListFields |-> "absent"],
      selectedListItems |-> [f \in ListFields |-> NoValue],
      moreOn |-> [f \in ListFields |-> FALSE],
      applied |-> FALSE,
      closedDirty |-> FALSE ]

\* All three state objects are {}.
allEmpty(d) ==
    /\ \A f \in ListFields \cup DateFields : ~d.filterValues[f].has
    /\ \A f \in ListFields : d.expandedSelects[f] = "absent"
    /\ \A f \in ListFields : ~d.selectedListItems[f].has

handleClose_KeepSelected(d) ==
    [d EXCEPT !.open = FALSE,
              !.filterValues = [f \in ListFields \cup DateFields |-> NoValue],
              !.expandedSelects = [f \in ListFields |-> "absent"],
              !.moreOn = [f \in ListFields |-> FALSE],
              !.closedDirty = ~allEmpty(d)]

\* handleClose: setOpen(false) and the three objects emptied.
handleClose(d) ==
    [d EXCEPT !.open = FALSE,
              !.closedDirty = ~allEmpty(d),
              !.filterValues = [f \in ListFields \cup DateFields |-> NoValue],
              !.expandedSelects = [f \in ListFields |-> "absent"],
              !.selectedListItems = [f \in ListFields |-> NoValue],
              !.moreOn = [f \in ListFields |-> FALSE]]

\* currentSelected.includes(itemId) ? filter it out : append it
toggleItem(ids, itemId) ==
    IF \E i \in 1..Len(ids) : ids[i] = itemId
    THEN SelectSeq(ids, LAMBDA x : x # itemId)
    ELSE Append(ids, itemId)

\* handleListItemToggle(field, itemId): the new selection is stored in
\* selectedListItems and in filterValues.
handleListItemToggle(d, field, itemId) ==
    LET newSelected == toggleItem(d.selectedListItems[field].val, itemId) IN
    [d EXCEPT !.selectedListItems[field] = [has |-> TRUE, val |-> newSelected],
              !.filterValues[field] = [has |-> TRUE, val |-> newSelected]]

\* toggleExpand(field): every key the object has is set to false, then
\* [field] is set to !prev[field].
toggleExpand(d, field) ==
    [d EXCEPT !.expandedSelects =
        [f \in ListFields |->
            IF f = field
            THEN (IF d.expandedSelects[field] = "true" THEN "false" ELSE "true")
            ELSE (IF d.expandedSelects[f] = "absent" THEN "absent" ELSE "false")]]

\* renderListOptions: the number of options rendered for the list of field:
\* options.slice(0, 10) when there are more than 10 and !isExpanded.
displayOptions(d, field) ==
    LET isExpanded == d.expandedSelects[field] = "true"
        showMoreButton == optionCount[field] > MoreThreshold IN
    IF showMoreButton /\ ~isExpanded THEN MoreThreshold ELSE optionCount[field]

\* The label of the button of the list: isExpanded ? '收起' : '更多',
\* written "collapse" and "more".
buttonLabel(d, field) ==
    IF d.expandedSelects[field] = "true" THEN "collapse" ELSE "more"

\* <Collapse in={expandedSelects[field]}>: the list and its button are shown
\* and can be operated only while the section is expanded.
sectionShown(d, field) == d.open /\ d.expandedSelects[field] = "true"

otherThanDrawer == <<req, ax10, ax7, ax0, ax4, inst, stepper, nav, ax6, grid>>

\* The 筛选 button.
HandleOpen ==
    /\ ~drawer.open
    /\ drawer' = [drawer EXCEPT !.open = TRUE]
    /\ UNCHANGED otherThanDrawer

\* The close icon, or the backdrop (Drawer onClose).
HandleClose ==
    /\ drawer.open
    /\ drawer' = handleClose(drawer)
    /\ UNCHANGED otherThanDrawer

\* The 应用 button: onApply(filterValues); handleClose().
Apply ==
    /\ drawer.open
    /\ drawer' = handleClose([drawer EXCEPT !.applied = TRUE])
    /\ UNCHANGED otherThanDrawer

\* handleDateChange(field, date)
HandleDateChange(field, date) ==
    /\ drawer.open
    /\ drawer' = [drawer EXCEPT !.filterValues[field] = [has |-> TRUE, val |-> date]]
    /\ UNCHANGED otherThanDrawer

\* A click on an option of the list.
HandleListItemToggle(field, itemId) ==
    /\ sectionShown(drawer, field)
    /\ itemId <= displayOptions(drawer, field)
    /\ drawer' = handleListItemToggle(drawer, field, itemId)
    /\ UNCHANGED otherThanDrawer

\* A click on the header of a list filter.
ClickHeader(field) ==
    /\ drawer.open
    /\ drawer' = toggleExpand(drawer, field)
    /\ UNCHANGED otherThanDrawer

\* A click on the 更多 / 收起 button of a list with more than 10 options.
ClickMoreButton(field) ==
    /\ sectionShown(drawer, field)
    /\ optionCount[field] > MoreThreshold
    /\ drawer' = [toggleExpand(drawer, field) EXCEPT
                     !.moreOn[field] = (buttonLabel(drawer, field) = "more")]
    /\ UNCHANGED otherThanDrawer

\* ------------------------------------------------------------------------
\* StepperComponent with StepperContext  (src/deepseek.txt)
\* ------------------------------------------------------------------------

steps == <<"Step 1", "Step 2", "Step 3">>

\* The name of the TextField of each step.
FieldNames == <<"firstName", "lastName", "email">>

\* Values typed into a field.
Values == {"", "John"}

\* initialState, with the last user event (kind, the step of a label click,
\* the name of a changed input).
stepperInit ==
    [ activeStep |-> 0,
      formData |-> [n \in {FieldNames[i] : i \in 1..Len(FieldNames)} |-> null],
      lastEvent |-> [kind |-> "init", step |-> 0, name |-> null] ]

stepperReducer_ReplaceFormData(state, action) ==
    CASE action.type = "NEXT_STEP" -> [state EXCEPT !.activeStep = state.activeStep + 1]
      [] action.type = "PREV_STEP" -> [state EXCEPT !.activeStep = state.activeStep - 1]
      [] action.type = "UPDATE_FORM_DATA" -> [state EXCEPT !.formData = action.payload]
      [] OTHER -> state

\* stepperReducer: NEXT_STEP and PREV_STEP move activeStep by one,
\* UPDATE_FORM_DATA spreads the payload over formData.
stepperReducer(state, action) ==
    CASE action.type = "NEXT_STEP" -> [state EXCEPT !.activeStep = state.activeStep + 1]
      [] action.type = "PREV_STEP" -> [state EXCEPT !.activeStep = state.activeStep - 1]
      [] action.type = "UPDATE_FORM_DATA" ->
            [state EXCEPT !.formData =
                [n \in DOMAIN state.formData |->
                    IF action.payload[n] # null THEN action.payload[n]
                    ELSE state.formData[n]]]
      [] OTHER -> state

\* The payload { [name]: value }; null marks a key the payload does not hold.
singleKey(name, value) ==
    [n \in {FieldNames[i] : i \in 1..Len(FieldNames)} |-> IF n = name THEN value ELSE null]

\* getStepContent(step): the name of the TextField rendered for the step.
getStepContent(step) ==
    CASE step = 0 -> "firstName"
      [] step = 1 -> "lastName"
      [] step = 2 -> "email"
      [] OTHER -> "Unknown step"

backDisabled_Never(s) == FALSE

\* <Button disabled={activeStep === 0}>
backDisabled(s) == s.activeStep = 0

\* <Button disabled={activeStep === steps.length - 1}>
nextDisabled(s) == s.activeStep = Len(steps) - 1

otherThanStepper == <<req, ax10, ax7, ax0, ax4, inst, drawer, nav, ax6, grid>>

\* handleNext
HandleNext ==
    /\ ~nextDisabled(stepper)
    /\ stepper' = [stepperReducer(stepper, [type |-> "NEXT_STEP"]) EXCEPT
                      !.lastEvent = [kind |-> "next", step |-> 0, name |-> null]]
    /\ UNCHANGED otherThanStepper

\* handleBack
HandleBack ==
    /\ ~backDisabled(stepper)
    /\ stepper' = [stepperReducer(stepper, [type |-> "PREV_STEP"]) EXCEPT
                      !.lastEvent = [kind |-> "back", step |-> 0, name |-> null]]
    /\ UNCHANGED otherThanStepper

\* handleInputChange on the TextField of the active step.
HandleInputChange(value) ==
    LET name == getStepContent(stepper.activeStep) IN
    /\ stepper' = [stepperReducer(stepper, [type |-> "UPDATE_FORM_DATA",
                                            payload |-> singleKey(name, value)]) EXCEPT
                      !.lastEvent = [kind |-> "input", step |-> 0, name |-> name]]
    /\ UNCHANGED otherThanStepper

\* A click on the label of step k: <StepLabel> has no handler, nothing is
\* dispatched.
ClickStepLabel(k) ==
    /\ stepper' = [stepper EXCEPT !.lastEvent = [kind |-> "label", step |-> k, name |-> null]]
    /\ UNCHANGED otherThanStepper

\* ------------------------------------------------------------------------
\* NavigationComponent  (src/unnamed/part_004)
\* ------------------------------------------------------------------------

\* The titles of the navigation items.
items == <<"Tab 1", "Tab 2", "Tab 3">>

\* A content is a ReactNode: an element, or the number 0, which React
\* renders as the text 0 and which is falsy.
Entries == {"element", "zero"}

\* The contents arrays: at most one content per item.
ContentLists == UNION {[1..n -> Entries] : n \in 0..Len(items)}

\* State after the first render: currentIndex is useState(activeIndex).
\* clicked is the item of the last click (-1: none), onChangeLast the last
\* argument of onChange (-1: not called).
navigationInit(type, contents, activeIndex) ==
    [ type |-> type,
      contents |-> contents,
      activeIndex |-> activeIndex,
      currentIndex |-> activeIndex,
      clicked |-> -1,
      onChangeLast |-> -1 ]

handleChange_KeepIndex(n, newValue) ==
    [n EXCEPT !.onChangeLast = newValue]

\* handleChange: setCurrentIndex(newValue); onChange?.(newValue)
handleChange(n, newValue) ==
    [n EXCEPT !.currentIndex = newValue, !.onChangeLast = newValue]

\* contents has an entry at index i (indices from 0).
hasEntry(n, i) == i < Len(n.contents)

\* A ReactNode that is truthy.
truthy(entry) == entry = "element"

\* StepperComponent: contents[currentIndex] || <Typography>...</Typography>;
\* the index of the content rendered, if it is the content that is rendered.
stepperContent(n) ==
    IF hasEntry(n, n.currentIndex) /\ truthy(n.contents[n.currentIndex + 1])
    THEN {n.currentIndex} ELSE {}

\* The indices of the contents on screen.  TabsComponent: one TabPanel per
\* content, which renders its children when value === index.
shownContents(n) ==
    IF n.type = "tabs"
    THEN {i \in 0..(Len(n.contents) - 1) : n.currentIndex = i}
    ELSE stepperContent(n)

\* The fallback text is on screen.
fallbackShown(n) == n.type = "stepper" /\ stepperContent(n) = {}

otherThanNav == <<req, ax10, ax7, ax0, ax4, inst, drawer, stepper, ax6, grid>>

\* A click on tab i: Tabs calls onChange for a tab that is not the selected one.
ClickTab(i) ==
    /\ nav.type = "tabs"
    /\ nav' = [(IF i # nav.currentIndex THEN handleChange(nav, i) ELSE nav)
                  EXCEPT !.clicked = i]
    /\ UNCHANGED otherThanNav

\* A click on step i: onClick={() => handleChange(null, index)}
ClickStep(i) ==
    /\ nav.type = "stepper"
    /\ nav' = [handleChange(nav, i) EXCEPT !.clicked = i]
    /\ UNCHANGED otherThanNav

\* ------------------------------------------------------------------------
\* useAxios with manual / cache options  (start of src/unnamed/part_006)
\* ------------------------------------------------------------------------

\* Number of requests one hook instance sends.
MaxSent6 == 3

SentIds6 == 1..MaxSent6

NoSent6 == [status |-> "none", cfg |-> "base"]

\* State after the first render.  cacheData[c] is the entry under
\* JSON.stringify(c) (null: none).  calls[i] is the i-th request sent:
\* "pending", "aborted" (its token was cancelled, the rejection has not been
\* handled yet), "ok", "failed", "cancelled".  lastFetch tells how the last
\* fetchData call was answered ("none", "hit" from the cache, "sent") and
\* hitValue the cached value a hit put in data.
useAxios6Init(manual, cache) ==
    [ manual |-> manual, cache |-> cache,
      config |-> "base",
      data |-> null, loading |-> ~manual, error |-> null,
      cacheData |-> [c \in Configs |-> null],
      cancelTokenSource |-> 0,
      calls |-> [i \in SentIds6 |-> NoSent6],
      issued |-> 0,
      started |-> FALSE,
      mounted |-> TRUE,
      lastFetch |-> "none",
      hitValue |-> null ]

\* cancelTokenSource.current.cancel(...): a request in flight on that token
\* is rejected with a cancellation.
cancelSource6(h) ==
    IF h.cancelTokenSource # 0 /\ h.calls[h.cancelTokenSource].status = "pending"
    THEN [h.calls EXCEPT ![h.cancelTokenSource].status = "aborted"]
    ELSE h.calls

\* cache && cacheData.current[cacheKey]
cacheHit6(h) == h.cache /\ h.cacheData[h.config] # null

\* fetchData up to its return or its await.  A cache hit sets the state from
\* the cache and returns before the previous request is cancelled; otherwise
\* the previous token is cancelled, a new one created and the request sent.
fetchData6(h) ==
    IF cacheHit6(h)
    THEN [h EXCEPT !.data = h.cacheData[h.config], !.loading = FALSE, !.error = null,
                   !.lastFetch = "hit", !.hitValue = h.cacheData[h.config]]
    ELSE LET id == h.issued + 1 IN
         [h EXCEPT !.calls = [cancelSource6(h) EXCEPT ![id] =
                                 [status |-> "pending", cfg |-> h.config]],
                   !.cancelTokenSource = id,
                   !.issued = id,
                   !.loading = TRUE, !.error = null,
                   !.lastFetch = "sent"]

\* After the await: the response is cached under the key of the call's
\* config, then the state is replaced.
fetchResolved6(h, id, d) ==
    [h EXCEPT !.cacheData = IF h.cache
                            THEN [h.cacheData EXCEPT ![h.calls[id].cfg] = d]
                            ELSE h.cacheData,
              !.data = d, !.loading = FALSE, !.error = null,
              !.calls[id].status = "ok"]

\* catch of a failure that is not a cancellation.
fetchRejected6(h, id, e) ==
    [h EXCEPT !.data = null, !.loading = FALSE, !.error = e,
              !.calls[id].status = "failed"]

otherThanAx6 == <<req, ax10, ax7, ax0, ax4, inst, drawer, stepper, nav, grid>>

\* The effects of the first render: fetchData() unless manual.
Mount6 ==
    /\ ~ax6.started
    /\ ax6' = [(IF ax6.manual THEN ax6 ELSE fetchData6(ax6)) EXCEPT !.started = TRUE]
    /\ UNCHANGED otherThanAx6

\* A render with another config: fetchData is recreated and the effect that
\* depends on it calls it unless manual.
ConfigChange6(cfg) ==
    /\ ax6.started /\ ax6.mounted
    /\ cfg # ax6.config
    /\ ax6.manual \/ ax6.issued < MaxSent6
    /\ ax6' = IF ax6.manual THEN [ax6 EXCEPT !.config = cfg]
              ELSE fetchData6([ax6 EXCEPT !.config = cfg])
    /\ UNCHANGED otherThanAx6

\* refetch()
Refetch6 ==
    /\ ax6.started /\ ax6.mounted
    /\ ax6.issued < MaxSent6
    /\ ax6' = fetchData6(ax6)
    /\ UNCHANGED otherThanAx6

Resolves6(id, d) ==
    /\ ax6.calls[id].status = "pending"
    /\ ax6' = fetchResolved6(ax6, id, d)
    /\ UNCHANGED otherThanAx6

Rejects6(id, e) ==
    /\ ax6.calls[id].status = "pending"
    /\ ax6' = fetchRejected6(ax6, id, e)
    /\ UNCHANGED otherThanAx6

\* catch of a cancellation: it is logged, the state is not touched.
Cancelled6(id) ==
    /\ ax6.calls[id].status = "aborted"
    /\ ax6' = [ax6 EXCEPT !.calls[id].status = "cancelled"]
    /\ UNCHANGED otherThanAx6

\* Cleanup of the effect with no dependencies.
Unmount6 ==
    /\ ax6.started /\ ax6.mounted
    /\ ax6' = [ax6 EXCEPT !.mounted = FALSE, !.calls = cancelSource6(ax6)]
    /\ UNCHANGED otherThanAx6

\* ------------------------------------------------------------------------
\* TreeDataGrid  (src/unnamed/part_003)
\* ------------------------------------------------------------------------

\* The ids of the nodes of the input data.
NodeIds == {"a", "b", "c"}

\* A parentId: the id of a node, null, or an id no node of the data has.
ParentIds == NodeIds \cup {null, "missing"}

RECURSIVE ancestorsIn(_, _, _)
\* The ancestors of n under the parent map p (seen stops a cycle).
ancestorsIn(p, n, seen) ==
    IF p[n] \notin NodeIds THEN {}
    ELSE IF p[n] \in seen THEN {p[n]}
    ELSE {p[n]} \cup ancestorsIn(p, p[n], seen \cup {p[n]})

\* The input data: every node once, in any order, the parentIds forming a
\* forest (no node is its own ancestor).
TreeData ==
    { [i \in 1..Cardinality(NodeIds) |-> [id |-> order[i], parentId |-> p[order[i]]]] :
        order \in {s \in [1..Cardinality(NodeIds) -> NodeIds] :
                      \A i, j \in DOMAIN s : i # j => s[i] # s[j]},
        p \in {q \in [NodeIds -> ParentIds] :
                  \A n \in NodeIds : n \notin ancestorsIn(q, n, {})} }

RECURSIVE setLevels(_, _, _)
\* idToNodeMap.forEach: the nodes are visited in the order of data, and a
\* node with a parent in the map gets the level its parent has at that
\* moment, plus one.  level holds the level of every node (0 at first).
setLevels(data, i, level) ==
    IF i > Len(data) THEN level
    ELSE LET node == data[i] IN
         setLevels(data, i + 1,
                   IF node.parentId \in NodeIds
                   THEN [level EXCEPT ![node.id] = level[node.parentId] + 1]
                   ELSE level)

\* parent.children: the nodes with this parentId, in the order of data.
childrenOf(data, id) ==
    LET kids == SelectSeq(data, LAMBDA node : node.parentId = id) IN
    [i \in 1..Len(kids) |-> kids[i].id]

\* rootNodes: the nodes without a parentId or with a parent that is not in
\* the map, in the order of data.
rootNodes(data) ==
    LET roots == SelectSeq(data, LAMBDA node : node.parentId \notin NodeIds) IN
    [i \in 1..Len(roots) |-> roots[i].id]

RECURSIVE flattenTree_All(_, _, _)
flattenTree_All(data, expandedRows, nodes) ==
    IF nodes = <<>> THEN <<>>
    ELSE <<Head(nodes)>>
         \o flattenTree_All(data, expandedRows, childrenOf(data, Head(nodes)))
         \o flattenTree_All(data, expandedRows, Tail(nodes))

RECURSIVE flattenTree(_, _, _)
\* flattenTree(nodes): each node, followed by its flattened children when
\* it is expanded and has children.
flattenTree(data, expandedRows, nodes) ==
    IF nodes = <<>> THEN <<>>
    ELSE <<Head(nodes)>>
         \o (IF Head(nodes) \in expandedRows /\ childrenOf(data, Head(nodes)) # <<>>
             THEN flattenTree(data, expandedRows, childrenOf(data, Head(nodes)))
             ELSE <<>>)
         \o flattenTree(data, expandedRows, Tail(nodes))

\* processTreeData(): the rows handed to the DataGrid, each with its level.
processTreeData(data, expandedRows) ==
    LET level == setLevels(data, 1, [n \in NodeIds |-> 0])
        ids == flattenTree(data, expandedRows, rootNodes(data)) IN
    [i \in 1..Len(ids) |-> [id |-> ids[i], level |-> level[ids[i]]]]

\* State after the first render: nothing expanded (expandedRows holds the
\* ids whose entry is true), rows computed from data.
treeDataGridInit(data) ==
    [ data |-> data, expandedRows |-> {}, rows |-> processTreeData(data, {}) ]

otherThanGrid == <<req, ax10, ax7, ax0, ax4, inst, drawer, stepper, nav, ax6>>

\* handleToggleExpand(id), from the button of a listed row that has
\* children; the render that follows recomputes the rows.
HandleToggleExpand(id) ==
    /\ \E i \in DOMAIN grid.rows : grid.rows[i].id = id
    /\ childrenOf(grid.data, id) # <<>>
    /\ LET expanded == IF id \in grid.expandedRows
                       THEN grid.expandedRows \ {id}
                       ELSE grid.expandedRows \cup {id} IN
       grid' = [grid EXCEPT !.expandedRows = expanded,
                            !.rows = processTreeData(grid.data, expanded)]
    /\ UNCHANGED otherThanGrid

\* ------------------------------------------------------------------------
\* Specifications: one per hook
\* ------------------------------------------------------------------------

\* The hooks a specification is not about stay as constructed with these
\* options.
IdleReq == req = useRequestInit(TRUE, null)
IdleAx10 == ax10 = useAxios10Init(null)
IdleAx7 == ax7 = useAxios7Init(0, FALSE)
IdleAx0 == ax0 = useAxios0Init(TRUE, FALSE, 0)
IdleAx4 == ax4 = useAxios4Init(FALSE)
IdleInst == inst = instanceInit
IdleDrawer == drawer = filterDrawerInit
IdleStepper == stepper = stepperInit
IdleNav == nav = navigationInit("tabs", <<>>, 0)
IdleAx6 == ax6 = useAxios6Init(TRUE, FALSE)
IdleGrid == grid = treeDataGridInit(<<>>)

InitRequest ==
    /\ \E manual \in BOOLEAN, initialData \in {null, "d1"} :
          req = useRequestInit(manual, initialData)
    /\ IdleAx10 /\ IdleAx7 /\ IdleAx0 /\ IdleAx4 /\ IdleInst /\ IdleDrawer /\ IdleStepper /\ IdleNav /\ IdleAx6 /\ IdleGrid

NextRequest ==
    \/ Mount
    \/ \E cfg \in Configs : Run(cfg)
    \/ Refresh
    \/ Reset
    \/ \E id \in RunIds, d \in Data : RequestResolves(id, d)
    \/ \E id \in RunIds, err \in Thrown : RequestRejects(id, err)
    \/ \E id \in RunIds : RequestCancelled(id)
    \/ Unmount

SpecRequest == InitRequest /\ [][NextRequest]_vars

InitAxios10 ==
    /\ \E cacheKey \in CacheKeys \cup {null} : ax10 = useAxios10Init(cacheKey)
    /\ IdleReq /\ IdleAx7 /\ IdleAx0 /\ IdleAx4 /\ IdleInst /\ IdleDrawer /\ IdleStepper /\ IdleNav /\ IdleAx6 /\ IdleGrid

NextAxios10 ==
    \/ \E cfg \in Configs : Execute10(cfg)
    \/ \E id \in ExecIds, d \in Data : Resolves10(id, d)
    \/ \E id \in ExecIds, e \in Errors : Rejects10(id, e)
    \/ \E id \in ExecIds : Cancelled10(id)
    \/ Cancel10
    \/ Unmount10
    \/ Tick10

SpecAxios10 == InitAxios10 /\ [][NextAxios10]_vars

InitAxios7 ==
    /\ \E retry \in 0..MaxRetry, cache \in BOOLEAN : ax7 = useAxios7Init(retry, cache)
    /\ IdleReq /\ IdleAx10 /\ IdleAx0 /\ IdleAx4 /\ IdleInst /\ IdleDrawer /\ IdleStepper /\ IdleNav /\ IdleAx6 /\ IdleGrid

NextAxios7 ==
    \/ Mount7
    \/ DepsChange7
    \/ \E id \in AttemptIds, d \in Data : Resolves7(id, d)
    \/ \E id \in AttemptIds, e \in Errors : Rejects7(id, e)
    \/ \E id \in AttemptIds : Cancelled7(id)
    \/ TimerFires7
    \/ Cancel7
    \/ Unmount7

SpecAxios7 == InitAxios7 /\ [][NextAxios7]_vars

InitAxios0 ==
    /\ \E manual \in BOOLEAN, cache \in BOOLEAN, retry \in 0..MaxRetry :
          ax0 = useAxios0Init(manual, cache, retry)
    /\ IdleReq /\ IdleAx10 /\ IdleAx7 /\ IdleAx4 /\ IdleInst /\ IdleDrawer /\ IdleStepper /\ IdleNav /\ IdleAx6 /\ IdleGrid

NextAxios0 ==
    \/ Mount0
    \/ Refetch0
    \/ LoadMore0
    \/ \E id \in FetchIds, d \in Pages : Resolves0(id, d)
    \/ \E id \in FetchIds, e \in Errors : Rejects0(id, e)
    \/ \E id \in FetchIds : Cancelled0(id)
    \/ Unmount0

SpecAxios0 == InitAxios0 /\ [][NextAxios0]_vars

InitAxios4 ==
    /\ \E immediate \in BOOLEAN : ax4 = useAxios4Init(immediate)
    /\ IdleReq /\ IdleAx10 /\ IdleAx7 /\ IdleAx0 /\ IdleInst /\ IdleDrawer /\ IdleStepper /\ IdleNav /\ IdleAx6 /\ IdleGrid

NextAxios4 ==
    \/ Mount4
    \/ Refetch4
    \/ \E id \in RefetchIds, d \in Data : Resolves4(id, d)
    \/ \E id \in RefetchIds, e \in Errors : Rejects4(id, e)
    \/ \E id \in RefetchIds : Cancelled4(id)
    \/ Cancel4
    \/ UrlChange4
    \/ Unmount4

SpecAxios4 == InitAxios4 /\ [][NextAxios4]_vars

InitInstance ==
    /\ inst = instanceInit
    /\ IdleReq /\ IdleAx10 /\ IdleAx7 /\ IdleAx0 /\ IdleAx4 /\ IdleDrawer /\ IdleStepper /\ IdleNav /\ IdleAx6 /\ IdleGrid

NextInstance ==
    \/ \E cfg \in InstConfigs, callerSignal \in BOOLEAN : Send(cfg, callerSignal)
    \/ \E id \in SendIds : CallerAborts(id)
    \/ \E id \in SendIds : InstResponds(id)
    \/ \E id \in SendIds : InstFails(id)
    \/ \E id \in SendIds : InstCancelled(id)
    \/ InstTick

SpecInstance == InitInstance /\ [][NextInstance]_vars

InitFilterDrawer ==
    /\ drawer = filterDrawerInit
    /\ IdleReq /\ IdleAx10 /\ IdleAx7 /\ IdleAx0 /\ IdleAx4 /\ IdleInst /\ IdleStepper /\ IdleNav /\ IdleAx6 /\ IdleGrid

NextFilterDrawer ==
    \/ HandleOpen
    \/ HandleClose
    \/ Apply
    \/ \E field \in DateFields, date \in Dates : HandleDateChange(field, date)
    \/ \E field \in ListFields, itemId \in 1..MaxItem : HandleListItemToggle(field, itemId)
    \/ \E field \in ListFields : ClickHeader(field)
    \/ \E field \in ListFields : ClickMoreButton(field)

SpecFilterDrawer == InitFilterDrawer /\ [][NextFilterDrawer]_vars

InitStepper ==
    /\ stepper = stepperInit
    /\ IdleReq /\ IdleAx10 /\ IdleAx7 /\ IdleAx0 /\ IdleAx4 /\ IdleInst /\ IdleDrawer /\ IdleNav /\ IdleAx6 /\ IdleGrid

NextStepper ==
    \/ HandleNext
    \/ HandleBack
    \/ \E value \in Values : HandleInputChange(value)
    \/ \E k \in 0..(Len(steps) - 1) : ClickStepLabel(k)

SpecStepper == InitStepper /\ [][NextStepper]_vars

InitNavigation ==
    /\ \E type \in {"tabs", "stepper"}, contents \in ContentLists,
          activeIndex \in 0..(Len(items) - 1) :
          nav = navigationInit(type, contents, activeIndex)
    /\ IdleReq /\ IdleAx10 /\ IdleAx7 /\ IdleAx0 /\ IdleAx4 /\ IdleInst /\ IdleDrawer /\ IdleStepper /\ IdleAx6 /\ IdleGrid

NextNavigation ==
    \/ \E i \in 0..(Len(items) - 1) : ClickTab(i)
    \/ \E i \in 0..(Len(items) - 1) : ClickStep(i)

SpecNavigation == InitNavigation /\ [][NextNavigation]_vars

InitAxios6 ==
    /\ \E manual \in BOOLEAN, cache \in BOOLEAN : ax6 = useAxios6Init(manual, cache)
    /\ IdleReq /\ IdleAx10 /\ IdleAx7 /\ IdleAx0 /\ IdleAx4 /\ IdleInst /\ IdleDrawer /\ IdleStepper /\ IdleNav /\ IdleGrid

NextAxios6 ==
    \/ Mount6
    \/ \E cfg \in Configs : ConfigChange6(cfg)
    \/ Refetch6
    \/ \E id \in SentIds6, d \in Data : Resolves6(id, d)
    \/ \E id \in SentIds6, e \in Errors : Rejects6(id, e)
    \/ \E id \in SentIds6 : Cancelled6(id)
    \/ Unmount6

SpecAxios6 == InitAxios6 /\ [][NextAxios6]_vars

InitTreeDataGrid ==
    /\ \E data \in TreeData : grid = treeDataGridInit(data)
    /\ IdleReq /\ IdleAx10 /\ IdleAx7 /\ IdleAx0 /\ IdleAx4 /\ IdleInst /\ IdleDrawer /\ IdleStepper /\ IdleNav /\ IdleAx6

NextTreeDataGrid == \E id \in NodeIds : HandleToggleExpand(id)

SpecTreeDataGrid == InitTreeDataGrid /\ [][NextTreeDataGrid]_vars

\* ------------------------------------------------------------------------
\* Claims C1 - C3: useRequest
\* ------------------------------------------------------------------------

\* C1: a run made while an earlier run is outstanding aborts the earlier
\* request, and the settlement of a run that a later run has aborted changes
\* none of data, error and loading.
C1_SupersededRunChangesNothing ==
    [][ /\ ( /\ req'.issued = req.issued + 1
             /\ req.abortControllerRef # 0
             /\ req.calls[req.abortControllerRef].status = "pending" )
           => req'.calls[req.abortControllerRef].status = "aborted"
        /\ \A id \in RunIds :
             ( /\ id # req.abortControllerRef
               /\ req.calls[id].status = "aborted"
               /\ req'.calls[id].status = "cancelled" )
             => ( /\ req'.data = req.data
                  /\ req'.error = req.error
                  /\ req'.loading = req.loading ) ]_vars

\* C2: whenever a request issued by run is in flight and has not been
\* aborted, loading is true.
C2_LoadingWhileInFlight ==
    \A id \in RunIds : req.calls[id].status = "pending" => req.loading

\* C3: after the unmount no request is left in flight unaborted and no state
\* setter has been invoked.
C3_NoSetterAfterUnmount ==
    ~req.mounted =>
        /\ \A id \in RunIds : req.calls[id].status # "pending"
        /\ ~req.setAfterUnmount

\* ------------------------------------------------------------------------
\* Claims C4, C5, C8: useAxios of part_010
\* ------------------------------------------------------------------------

\* No execute of the hook is still to settle.
settled10 ==
    \A i \in ExecIds : ax10.calls[i].status \notin {"pending", "aborted"}

\* C4: once every execute has settled, the data stored is that of the most
\* recent execute that delivered data, whatever the order of the responses.
C4_LastCallerWins ==
    ( /\ ax10.issued > 0
      /\ settled10
      /\ ax10.calls[ax10.issued].status \in {"ok", "cached"} )
    => ax10.data = ax10.calls[ax10.issued].resp

\* C5: with a cacheKey, an execute made while an entry is stored and
\* Date.now() - timestamp < cacheDuration sends no request and sets data to
\* the cached value.
C5_ValidCacheNoRequest ==
    [][ ( /\ ax10'.issued = ax10.issued + 1
          /\ ax10.cacheKey # null
          /\ ax10.cacheStore[ax10.cacheKey].present
          /\ ax10.now - ax10.cacheStore[ax10.cacheKey].timestamp < cacheDuration )
        => ( /\ ax10'.calls[ax10'.issued].status = "cached"
             /\ ax10'.abortControllerRef = ax10.abortControllerRef
             /\ ax10'.data = ax10.cacheStore[ax10.cacheKey].data ) ]_vars

\* C5 witness: an execute was answered from an entry that an earlier execute
\* of the hook had stored.
C5_Witness ==
    \E i \in ExecIds :
        /\ ax10.calls[i].status = "cached"
        /\ ax10.calls[i].from \in ExecIds
        /\ ax10.calls[ax10.calls[i].from].status = "ok"
        /\ ax10.data = ax10.calls[i].resp

\* C8: an execute is answered from the cache only when its merged
\* configuration equals that of the request that produced the entry.
C8_CacheServedToSameConfig ==
    \A i \in ExecIds :
        ax10.calls[i].status = "cached"
        => ax10.calls[i].cfg = ax10.calls[ax10.calls[i].from].cfg

\* ------------------------------------------------------------------------
\* Claims C6, C10: useAxios of part_007
\* ------------------------------------------------------------------------

\* Requests of the hook that failed (other than by cancellation).
failed7 == {i \in AttemptIds : ax7.calls[i].status = "failed"}

\* Nothing of the hook is still to happen: no request in flight, no retry
\* scheduled.
quiescent7 ==
    /\ ax7.timers = 0
    /\ \A i \in AttemptIds : ax7.calls[i].status \notin {"pending", "aborted"}

\* C6: when every attempt fails, retry + 1 requests are sent, and error is
\* null until the last of them has failed.
C6_ErrorAfterLastAttempt ==
    ( \A i \in AttemptIds : ax7.calls[i].status \in {"none", "pending", "failed"} )
    => /\ ax7.error # null => Cardinality(failed7) = ax7.retry + 1
       /\ (quiescent7 /\ ax7.issued > 0) => ax7.issued = ax7.retry + 1

\* C10: when an attempt succeeds, response is the returned data and error is
\* null.
C10_SuccessClearsError ==
    [][ \A id \in AttemptIds :
          (ax7.calls[id].status = "pending" /\ ax7'.calls[id].status = "ok")
          => (ax7'.response = ax7'.calls[id].resp /\ ax7'.error = null) ]_vars

\* ------------------------------------------------------------------------
\* Claim C7: useAxios of part_000
\* ------------------------------------------------------------------------

\* Requests sent for the logical call l (its first attempt and its retries).
attemptsOf0(l) == {i \in FetchIds : ax0.calls[i].logical = l}

\* C7: the error of a call of refetch, loadMore or the automatic fetch is
\* stored only after that call has been retried retry times, whatever earlier
\* calls consumed.
C7_RetriesPerLogicalCall ==
    [][ \A id \in FetchIds :
          ( /\ ax0.calls[id].status = "pending"
            /\ ax0'.calls[id].status = "failed"
            /\ ax0'.error # null )
          => Cardinality(attemptsOf0(ax0.calls[id].logical)) = ax0.retry + 1 ]_vars

\* ------------------------------------------------------------------------
\* Claim C9: useAxios of axios4/useAxios.ts
\* ------------------------------------------------------------------------

\* C9: a request that fails other than by cancellation stores the error and
\* leaves the data loaded before untouched.
C9_FailureKeepsData ==
    [][ \A id \in RefetchIds :
          (ax4.calls[id].status = "pending" /\ ax4'.calls[id].status = "failed")
          => (ax4'.error \in Errors /\ ax4'.data = ax4.data) ]_vars

\* ------------------------------------------------------------------------
\* Claim C11: cancel() of axios4/useAxios.ts
\* ------------------------------------------------------------------------

\* C11: calling the returned cancel() while a request started by refetch or
\* by the mount effect is in flight aborts that request.
C11_CancelAbortsInFlight ==
    [][ ( /\ ax4'.aborted # ax4.aborted
          /\ ax4'.render = ax4.render
          /\ ax4'.mounted )
        => \A id \in RefetchIds :
              ax4.calls[id].status = "pending" => ax4'.calls[id].status = "aborted" ]_vars

\* ------------------------------------------------------------------------
\* Claims C12 - C17: useRequest
\* ------------------------------------------------------------------------

\* C12: handling the cancellation of a request (superseded by a new run or
\* aborted on unmount) changes neither data nor error and does not call
\* onError.
C12_CancellationLeavesDataAndError ==
    [][ \A id \in RunIds :
          (req.calls[id].status = "aborted" /\ req'.calls[id].status = "cancelled")
          => ( /\ req'.data = req.data
               /\ req'.error = req.error
               /\ req'.onErrorCalls = req.onErrorCalls
               /\ req'.onErrorLast = req.onErrorLast ) ]_vars

\* C12 witness: the cancellation of a superseded request has just been
\* handled while data loaded earlier is stored.
C12_Witness ==
    \E id \in RunIds :
        /\ req.calls[id].status = "cancelled"
        /\ id < req.abortControllerRef
        /\ req.lastOp = "cancelled"
        /\ req.data \in Data

\* C13 (as claimed): a request failure is never thrown to the caller: the
\* promise run returned for a failed request does not reject.
C13_FailureNotThrown ==
    \A id \in RunIds :
        req.calls[id].status = "failed" => req.calls[id].promise # "rejected"

\* C13 (amended): a request failure is caught inside the hook, stored in
\* error and forwarded to onError, and then thrown again: the promise run
\* returned rejects.
C13_FailureStoredAndRethrown ==
    [][ \A id \in RunIds :
          (req.calls[id].status = "pending" /\ req'.calls[id].status = "failed")
          => ( /\ req'.error \in Errors \cup {RequestFailed}
               /\ req'.onErrorLast = req'.error
               /\ req'.calls[id].promise = "rejected" ) ]_vars

\* C13 witness: a failure has just been handled: it is stored and the promise
\* of its run is rejected.
C13_Witness ==
    \E id \in RunIds :
        /\ req.calls[id].status = "failed"
        /\ req.calls[id].promise = "rejected"
        /\ req.lastOp = "rejected"
        /\ req.error # null

\* C14: when a request fails other than by cancellation, error is the
\* failure (wrapped in an Error when it is not one), onError is called exactly
\* once with it, and handling the failure leaves data as it was.
C14_FailureStoresErrorKeepsData ==
    [][ \A id \in RunIds :
          (req.calls[id].status = "pending" /\ req'.calls[id].status = "failed")
          => ( /\ req'.error = IF req'.calls[id].thrown \in Errors
                               THEN req'.calls[id].thrown ELSE RequestFailed
               /\ req'.onErrorCalls = req.onErrorCalls + 1
               /\ req'.onErrorLast = req'.error
               /\ req'.data = req.data ) ]_vars

\* C14 witness: a request was rejected with a value that is not an Error
\* while data loaded earlier was stored.
C14_Witness ==
    \E id \in RunIds :
        /\ req.calls[id].status = "failed"
        /\ req.calls[id].thrown = "notAnError"
        /\ req.lastOp = "rejected"
        /\ req.error = RequestFailed
        /\ req.data \in Data

\* C15: refresh() issues its request with the configuration of the most
\* recent request, the runConfig of the last run included.
C15_RefreshUsesLastConfig ==
    (req.lastOp = "refresh" /\ req.issued > 1)
    => req.calls[req.issued].cfg = req.calls[req.issued - 1].cfg

\* C16: reset() returns the state to its initial values: data is
\* initialData, error is null, loading is !manual.
C16_ResetToInitial ==
    req.lastOp = "reset"
    => ( /\ req.data = req.initialData
         /\ req.error = null
         /\ req.loading = ~req.manual )

\* C17: with manual = false the hook has sent the configured request once
\* the effects of the mount have run, without a call of run.
C17_AutomaticRequest ==
    (~req.manual /\ req.lastOp = "mount")
    => (req.issued = 1 /\ req.calls[1].status = "pending")

\* ------------------------------------------------------------------------
\* Claim C18: the axios instance of part_006
\* ------------------------------------------------------------------------

\* C18: at most one request that has not been aborted is in flight per
\* combination of method, url, params and data: sending a request aborts an
\* earlier pending one for the same combination.
C18_OnePendingPerRequest ==
    \A i, j \in SendIds :
        ( /\ i # j
          /\ inst.reqs[i].status = "pending"
          /\ inst.reqs[j].status = "pending" )
        => inst.reqs[i].cfg # inst.reqs[j].cfg


\* ------------------------------------------------------------------------
\* Claims C19 - C20: FilterDrawer
\* ------------------------------------------------------------------------

\* The list filters whose section is expanded.
expandedFields(d) == {f \in ListFields : d.expandedSelects[f] = "true"}

\* C19: expanding or collapsing one filter of the open drawer leaves the
\* expanded state of every other filter as it was: a step that changes
\* expandedSelects while the drawer stays open changes the expanded state
\* of at most one filter.
C19_ToggleLeavesOthers ==
    [][ (drawer.open /\ drawer'.open)
          => Cardinality((expandedFields(drawer) \ expandedFields(drawer'))
                         \cup (expandedFields(drawer') \ expandedFields(drawer))) <= 1 ]_vars

\* C20: a list filter with more than 10 options whose list is on screen
\* shows all its options when the last press of its button was on 更多,
\* and the first 10 otherwise (never pressed, or last pressed on 收起).
C20_FirstTenUntilMore ==
    \A f \in ListFields :
        (sectionShown(drawer, f) /\ optionCount[f] > MoreThreshold)
            => displayOptions(drawer, f) =
                   (IF drawer.moreOn[f] THEN optionCount[f] ELSE MoreThreshold)

\* ------------------------------------------------------------------------
\* Claim C21: FilterDrawer
\* ------------------------------------------------------------------------

\* C21: whenever the drawer is closed, filterValues, expandedSelects and
\* selectedListItems are all empty: the close icon, the backdrop and the
\* apply button all reset them.
C21_ClosedIsEmpty == ~drawer.open => allEmpty(drawer)

\* The drawer was closed by the apply button while it held values.
C21_Witness == ~drawer.open /\ drawer.closedDirty /\ drawer.applied

\* ------------------------------------------------------------------------
\* Claims C22 - C24: StepperComponent
\* ------------------------------------------------------------------------

\* C22: after a click on the label of step k, step k is the active step and
\* the form field of step k is the one shown.
C22_LabelClickSwitchesStep ==
    stepper.lastEvent.kind = "label"
        => /\ stepper.activeStep = stepper.lastEvent.step
           /\ getStepContent(stepper.activeStep) = FieldNames[stepper.lastEvent.step + 1]

\* C23: Back is disabled on the first step and Next on the last, so
\* activeStep stays within 0..steps.length-1 under Back and Next clicks.
C23_ActiveStepInRange ==
    /\ stepper.activeStep \in 0..(Len(steps) - 1)
    /\ stepper.activeStep = 0 => backDisabled(stepper)
    /\ stepper.activeStep = Len(steps) - 1 => nextDisabled(stepper)

\* Next was clicked up to the last step, where it is disabled.
C23_Witness ==
    /\ stepper.activeStep = Len(steps) - 1
    /\ stepper.lastEvent.kind = "next"
    /\ nextDisabled(stepper)

\* C24: a step taken by Next or Back leaves formData unchanged; a step taken
\* by an input change leaves activeStep and every key other than the changed
\* input's unchanged.
C24_StepSwitchKeepsFormData ==
    [][ /\ stepper'.lastEvent.kind \in {"next", "back"}
            => stepper'.formData = stepper.formData
        /\ stepper'.lastEvent.kind = "input"
            => /\ stepper'.activeStep = stepper.activeStep
               /\ \A n \in DOMAIN stepper.formData :
                     n # stepper'.lastEvent.name
                         => stepper'.formData[n] = stepper.formData[n] ]_vars

\* The first name was entered, the step switched, and the last name entered.
C24_Witness ==
    /\ stepper.activeStep = 1
    /\ stepper.lastEvent.kind = "input"
    /\ stepper.formData["firstName"] = "John"
    /\ stepper.formData["lastName"] = "John"

\* ------------------------------------------------------------------------
\* Claims C25 - C26: NavigationComponent
\* ------------------------------------------------------------------------

\* The item whose content is due: the item last clicked, or activeIndex
\* while nothing has been clicked.
dueIndex(n) == IF n.clicked = -1 THEN n.activeIndex ELSE n.clicked

C26_FallbackIffNoEntry ==
    nav.type = "stepper"
        => IF hasEntry(nav, nav.currentIndex)
           THEN shownContents(nav) = {nav.currentIndex} /\ ~fallbackShown(nav)
           ELSE shownContents(nav) = {} /\ fallbackShown(nav)

\* ------------------------------------------------------------------------
\* Claim C27: useAxios with cacheKey (part_010)
\* ------------------------------------------------------------------------

\* The age of the entry of the hook's key: Date.now() - timestamp.
entryAge(h) == h.now - h.cacheStore[h.cacheKey].timestamp

\* C27: an execute is answered from the cache only when the entry is
\* younger than cacheDuration; an execute that finds an entry of that age or
\* older sends a request; and the success of a request stores its data with
\* the time of the response as timestamp.
C27_ExpiredEntryRefetched ==
    [][ /\ ax10'.issued = ax10.issued + 1
            => LET call == ax10'.calls[ax10'.issued] IN
               /\ call.status = "cached"
                     => /\ ax10.cacheStore[ax10.cacheKey].present
                        /\ entryAge(ax10) < cacheDuration
                        /\ ax10'.data = ax10.cacheStore[ax10.cacheKey].data
               /\ (/\ ax10.cacheKey # null
                   /\ ax10.cacheStore[ax10.cacheKey].present
                   /\ entryAge(ax10) >= cacheDuration)
                     => call.status = "pending"
        /\ \A id \in ExecIds :
              (/\ ax10.calls[id].status = "pending"
               /\ ax10'.calls[id].status = "ok"
               /\ ax10.cacheKey # null)
                 => LET entry == ax10'.cacheStore[ax10.cacheKey] IN
                    /\ entry.present
                    /\ entry.data = ax10'.calls[id].resp
                    /\ entry.timestamp = ax10.now ]_vars

\* An execute found an expired entry, sent a request, and the response
\* replaced the entry.
C27_Witness ==
    /\ ax10.cacheKey # null
    /\ \E id \in ExecIds :
          /\ ax10.calls[id].expired
          /\ ax10.calls[id].status = "ok"
          /\ ax10.cacheStore[ax10.cacheKey].by = id
          /\ ax10.cacheStore[ax10.cacheKey].timestamp >= cacheDuration

\* ------------------------------------------------------------------------
\* Claims C28 - C29: the axios instance of part_006
\* ------------------------------------------------------------------------

\* The requests in flight and not aborted that were registered under key k.
liveWithKey(s, k) ==
    {i \in SendIds : /\ s.reqs[i].status = "pending"
                     /\ generateRequestKey(s.reqs[i].cfg, s.reqs[i].t, FALSE) = k}

\* C28: pendingMap holds, for each key, the controller of the latest request
\* in flight and not aborted that has the key, and no entry for a key without
\* such a request: a late settlement of an aborted request does not remove
\* the entry of its replacement, and nothing remains when all have settled.
C28_PendingMapTracksLatest ==
    \A k \in RequestKeys :
        inst.pendingMap[k] =
            (IF liveWithKey(inst, k) = {} THEN 0
             ELSE CHOOSE i \in liveWithKey(inst, k) :
                      \A j \in liveWithKey(inst, k) : j <= i)

\* C29: a request sent with a signal of the caller's is cancelled once the
\* caller has aborted its controller: the signal the client observes is
\* still the caller's after the request interceptor.
C29_CallerSignalObserved ==
    \A id \in SendIds :
        /\ (inst.reqs[id].status # "none" /\ inst.reqs[id].callerSignal)
              => inst.reqs[id].signal = "caller"
        /\ inst.reqs[id].callerAborted
              => inst.reqs[id].status \in {"aborted", "cancelled"}

\* ------------------------------------------------------------------------
\* Claim C30: useRequest
\* ------------------------------------------------------------------------

\* C30: from a call of reset until the next run or refresh, data is
\* initialData and error is null, also when a request was in flight at the
\* time of the reset.
C30_ResetHoldsUntilNextRun ==
    (req.resetAt = req.issued)
        => (req.data = req.initialData /\ req.error = null)

\* ------------------------------------------------------------------------
\* Claim C31: useAxios with cache of part_006
\* ------------------------------------------------------------------------

\* C31: once fetchData has answered from the cache, data stays the cached
\* value until the next fetchData call: a request still in flight for a
\* previous config does not overwrite it.
C31_CacheAnswerStays ==
    (ax6.cache /\ ax6.lastFetch = "hit") => ax6.data = ax6.hitValue

\* ------------------------------------------------------------------------
\* Claims C32 - C34: useAxios with retry of part_007
\* ------------------------------------------------------------------------

\* C32: whatever the value of retry, once an attempt has succeeded loading
\* is false (nothing in the hook sets it to true again).
C32_LoadingFalseAfterSuccess ==
    (\E id \in AttemptIds : ax7.calls[id].status = "ok") => ~ax7.loading

\* C33: loading is true while a retry is scheduled and while a retried
\* attempt is in flight.
C33_LoadingWhileRetrying ==
    ( \/ ax7.timers > 0
      \/ /\ ax7.retryCall # 0
         /\ ax7.calls[ax7.retryCall].status = "pending" )
    => ax7.loading

\* C34: a request the mounted hook starts is sent, also when an earlier
\* request was cancelled by cancel() or by the cleanup of the effect: it is
\* in flight after fetchData, not rejected as cancelled.
C34_CancelAffectsOneRequest ==
    [][ (ax7'.issued = ax7.issued + 1 /\ ax7'.mounted)
            => ax7'.calls[ax7'.issued].status = "pending" ]_vars

\* ------------------------------------------------------------------------
\* Claim C35: useAxios of axios4/useAxios.ts
\* ------------------------------------------------------------------------

\* C35: with immediate set, a change of config.url on the mounted hook
\* cancels the requests in flight and sends a request for the new url: the
\* new request is in flight after the effect, not rejected as cancelled.
C35_UrlChangeRestartsRequest ==
    [][ ( /\ ax4.immediate
          /\ ax4.effectRender # 0
          /\ ax4'.effectRender # ax4.effectRender
          /\ ax4'.mounted )
        => /\ \A id \in RefetchIds :
                 ax4.calls[id].status = "pending" => ax4'.calls[id].status = "aborted"
           /\ ax4'.issued = ax4.issued + 1
           /\ ax4'.calls[ax4'.issued].status = "pending" ]_vars

\* ------------------------------------------------------------------------
\* Claims C36 - C37: TreeDataGrid
\* ------------------------------------------------------------------------

\* The parentId of the node id of data.
parentIdOf(data, id) == data[CHOOSE i \in DOMAIN data : data[i].id = id].parentId

RECURSIVE ancestors(_, _)
\* The ancestors of the node id in the forest of data.
ancestors(data, id) ==
    IF parentIdOf(data, id) \notin NodeIds THEN {}
    ELSE {parentIdOf(data, id)} \cup ancestors(data, parentIdOf(data, id))

\* C36: the level of every row is the depth of its node, the number of its
\* ancestors, whatever the order of the nodes in data.
C36_LevelIsDepth ==
    \A i \in DOMAIN grid.rows :
        grid.rows[i].level = Cardinality(ancestors(grid.data, grid.rows[i].id))

\* C37: the rows are the nodes all of whose ancestors are expanded, each
\* once, every node after its ancestors and the rows of a subtree together.
C37_RowsAreVisibleNodesInPreOrder ==
    /\ \A n \in NodeIds :
          (\E i \in DOMAIN grid.rows : grid.rows[i].id = n)
              <=> ancestors(grid.data, n) \subseteq grid.expandedRows
    /\ \A i, j \in DOMAIN grid.rows : i # j => grid.rows[i].id # grid.rows[j].id
    /\ \A j \in DOMAIN grid.rows :
          \A a \in ancestors(grid.data, grid.rows[j].id) :
              \E i \in 1..(j - 1) :
                  /\ grid.rows[i].id = a
                  /\ \A k \in (i + 1)..j : a \in ancestors(grid.data, grid.rows[k].id)

\* A node was expanded and then hidden by the collapse of an ancestor.
C37_Witness ==
    \E n \in grid.expandedRows :
        /\ \A i \in DOMAIN grid.rows : grid.rows[i].id # n
        /\ ancestors(grid.data, n) # {}

\* ------------------------------------------------------------------------
\* Claim C38: pagination of useAxios of part_000
\* ------------------------------------------------------------------------

\* The pagination after a successful fetch that is not a load-more.
paginationReset(prev, d) == [prev EXCEPT !.items = d, !.page = 1, !.hasMore = TRUE]

\* C38: a load-more request is sent only while hasMore is true; a successful
\* load-more appends the received items, adds 1 to page and sets hasMore to
\* whether the page received is non-empty; a successful fetch that is not a
\* load-more, answered by a request or from the cache, replaces items and
\* resets page to 1 and hasMore to true.
C38_PaginationFollowsFetches ==
    [][ /\ (ax0'.issued = ax0.issued + 1 /\ ax0'.calls[ax0'.issued].isLoadMore)
              => ax0.pagination.hasMore
        /\ \A id \in FetchIds :
              (ax0.calls[id].status = "pending" /\ ax0'.calls[id].status = "ok")
                => ax0'.pagination =
                      IF ax0.calls[id].isLoadMore
                      THEN [ax0.pagination EXCEPT
                               !.items = ax0.pagination.items \o ax0'.data,
                               !.page = ax0.pagination.page + 1,
                               !.hasMore = Len(ax0'.data) > 0]
                      ELSE paginationReset(ax0.pagination, ax0'.data)
        /\ (ax0'.logicalCalls = ax0.logicalCalls + 1 /\ ax0'.issued = ax0.issued)
              => ax0'.pagination = paginationReset(ax0.pagination, ax0'.data) ]_vars

====
